---- MODULE Spec2Model ----
(***************************************************************************)
(* A model of the finetuner documentation repository:                      *)
(*   - the tutorial scripts (five notebooks and the run-job walkthrough),  *)
(*     each a linear sequence of calls against the remote job service,     *)
(*     together with the remote run whose status they observe;             *)
(*   - the push workflow "CI" (.github/workflows/ci.yml);                  *)
(*   - the dispatch workflow "Core-CI" (.github/workflows/remote-ci.yml).  *)
(***************************************************************************)
EXTENDS Naturals, Sequences, FiniteSets, TLC

\* Cap on the log entries the stream loop prints while the job is in progress.
MaxLog == 2

\* Cap on the commits the dispatched branch holds during a workflow run.
MaxCommits == 2

VARIABLES
    nb,             \* the script being executed
    pc,             \* index of the next (or the running) cell of the script
    phase,          \* "idle": between cells, "busy": a cell's call is in progress
    halted,         \* the kernel stopped on an exception
    run,            \* status of the remote run ("NONE" before fit registers it)
    handle,         \* how the client obtained its Run handle
    seen,           \* every status the run has held so far
    serverSteps,    \* number of status transitions the server has made
    fitCount,       \* number of fit submissions
    printed,        \* log entries printed by the stream_logs loop
    savedOn,        \* status of the run when save_artifact was invoked
    artifact,       \* what save_artifact returned
    observed,       \* status returned by the latest run.status()
    firstObserved,  \* status returned by the first run.status()
    stepsAtFirst,   \* serverSteps at the time of the first run.status()
    done,           \* kinds of call that have completed
    lastCall,       \* the operation performed by the latest step
    env,            \* the arrays bound in the kernel's namespace
    shapes,         \* the arrays whose embeddings.shape a cell asserted or printed
    fitArgs,        \* the arguments the fit call passed
    registered,     \* the name under which fit registered the run
    lookedUp,       \* the name the reconnect snippet passed to get_run
    nameErrors,     \* the NameErrors raised: where, and the unbound name
    snippetRun      \* the "Before and after" snippet has been run

VARIABLES
    wf,             \* the workflow of the run ("none" when no workflow runs)
    jobs,           \* status or conclusion of every job of the workflow run
    steps,          \* number of steps each job has completed
    conclusion,     \* env.WORKFLOW_CONCLUSION in the merge-blocking job
    coreDirs,       \* directories of the checked-out tree holding tests
    cudaDirs,       \* directories of the checked-out tree holding gpu tests
    coreMatrix,     \* output core-tests-matrix of prep-testbed
    cudaMatrix      \* output cuda-tests-matrix of prep-testbed

VARIABLES
    artifactId,     \* output artifact-id of prep-testbed
    store,          \* the files of the artifacts uploaded by the run
    downloaded,     \* the files get-coverage downloaded
    head,           \* the commit the dispatched branch points to
    checkedOut      \* the commit each job checked out (0 before it did)

VARIABLES
    tree,           \* the files under tests/ of the checked-out tree
    coreOut,        \* what the step "gather core test paths" printed
    cudaOut,        \* what the step "gather cuda test paths" printed
    gathered,       \* how many of the two gather steps have completed
    ran             \* <<k, files>>: the files the test-core job of the k-th
                    \* matrix entry passed to make test

trVars == <<tree, coreOut, cudaOut, gathered, ran>>

VARIABLES
    variant,        \* the notebook whose plot_matches is called
    pt_query,       \* the texts of the queries, in the order of the array
    num_samples,    \* the argument of plot_matches
    it,             \* how many pairs enumerate(zip(...)) has yielded
    loopI,          \* the loop variable i
    seenTexts,      \* the local set seen of plot_matches
    displayed,      \* the positions of the queries whose results were shown
    returned        \* plot_matches has returned

plVars == <<variant, pt_query, num_samples, it, loopI, seenTexts, displayed,
            returned>>

covVars == <<artifactId, store, downloaded, head, checkedOut>>

wfVars == <<wf, jobs, steps, conclusion, coreDirs, cudaDirs, coreMatrix,
            cudaMatrix, covVars>>

nbVars == <<nb, pc, phase, halted, run, handle, seen, serverSteps, fitCount,
            printed, savedOn, artifact, observed, firstObserved, stepsAtFirst,
            done, lastCall, env, shapes, nameErrors, snippetRun, fitArgs, registered, lookedUp>>

----------------------------------------------------------------------------
\* The scripts

Notebooks == {"mclip", "clip", "img2img", "pointnet", "bert"}

Scripts == Notebooks \cup {"runjob"}

\* Mutant of Cells: the CLIP notebook saves the artifact before it streams
\* the logs.
CellsSaveFirst(n) ==
    IF n = "clip"
      THEN <<"login", "pull", "fit", "save", "stream", "get_model", "encode">>
      ELSE IF n = "runjob"
        THEN <<"fit", "status">>
        ELSE <<"login", "pull", "fit", "stream", "save", "get_model",
               "encode", "match">>

\* The remote calls of each script's code cells, top to bottom.
Cells(n) ==
    CASE n = "mclip"    -> <<"login", "pull", "fit", "stream", "save",
                             "get_model", "encode">>
      [] n = "clip"     -> <<"login", "pull", "fit", "stream", "save",
                             "get_model", "encode">>
      [] n = "img2img"  -> <<"login", "pull", "fit", "stream", "save",
                             "get_model", "encode", "match">>
      [] n = "pointnet" -> <<"login", "pull", "fit", "stream", "save",
                             "get_model", "encode", "match",
                             "build_model", "encode", "match", "display">>
      [] n = "bert"     -> <<"login", "pull", "fit", "stream", "save",
                             "get_model", "encode", "match">>
      [] n = "runjob"   -> <<"fit", "status">>

\* The kind of the cell at pc ("end" past the last cell).
Kind == IF pc <= Len(Cells(nb)) THEN Cells(nb)[pc] ELSE "end"

\* Calls that neither create nor depend on the state of the run.
SimpleKinds == {"login", "pull", "get_model", "encode", "match", "build_model",
                "display"}

Terminal == {"FINISHED", "FAILED"}

Statuses == {"CREATED", "STARTED", "FINISHED", "FAILED"}

\* Mutant of Advance: a failed run sends the script back to resubmit fit.
AdvanceRetry(p) ==
    IF run = "FAILED" /\ p <= Len(Cells(nb)) /\ Cells(nb)[p] = "stream"
      THEN p - 1
      ELSE p + 1

\* Cells run top to bottom: the cell after pc.
Advance(p) == p + 1

----------------------------------------------------------------------------
\* The statements of the cells

\* The names the scripts bind to arrays.
Arrays == {"train_data", "eval_data", "query_data", "index_data", "query",
           "text_da", "image_da", "pt_query", "pt_index", "ft_query",
           "ft_index", "query_pt", "index_pt", "query_ft", "index_ft",
           "query_py"}

\* The names the scripts bind to models.
Models == {"model", "model_pt", "zero_shot_model", "mclip_text_encoder",
           "mclip_image_encoder", "clip_text_encoder", "clip_image_encoder",
           "zero_shot_text_encoder", "zero_shot_image_encoder"}

\* The modules, classes and functions the scripts import or define.
Modules == {"finetuner", "DocumentArray", "Document", "copy", "build_model",
            "BytesIO", "Image", "plot_matches"}

Names == Arrays \cup Models \cup Modules

\* A name that no statement has bound.
Unbound == [kind |-> "unbound", size |-> "unbound", encoded |-> FALSE,
            by |-> "none", matches |-> "none"]

\* What a statement binds a name to: a module, a model (fine-tuned "ft" or
\* pre-trained "pt"), or an array that no model has encoded.
Object(k) == [kind |-> k, size |-> "none", encoded |-> FALSE,
              by |-> "none", matches |-> "none"]

Array(n) == [kind |-> "array", size |-> n, encoded |-> FALSE,
             by |-> "none", matches |-> "none"]

\* import x, from ... import x, def x
Import(x) == [op |-> "bind", name |-> x, reads |-> {}, value |-> Object("module")]

\* x = DocumentArray.pull(...): a dataset of many documents.
Pull(x) == [op |-> "bind", name |-> x, reads |-> {"DocumentArray"},
            value |-> Array("many")]

\* x = DocumentArray([d]): an array of one document; rs are the names read.
One(x, rs) == [op |-> "bind", name |-> x, reads |-> rs, value |-> Array("one")]

\* x = finetuner.get_model(artifact=artifact, ...): the fine-tuned model.
GetModel(x) == [op |-> "bind", name |-> x, reads |-> {"finetuner"},
                value |-> Object("ft")]

\* x = finetuner.build_model(...) or x = build_model(...): the pre-trained
\* model; f is the name through which build_model is reached.
BuildModel(x, f) == [op |-> "bind", name |-> x, reads |-> {f},
                     value |-> Object("pt")]

\* x = copy.deepcopy(y)
Copy(x, y) == [op |-> "copy", name |-> x, reads |-> {"copy", y}, from |-> y]

\* finetuner.encode(model=m, data=x)
Encode(m, x) == [op |-> "encode", name |-> x, reads |-> {"finetuner", m, x},
                 model |-> m]

\* x.match(y, ...)
Match(x, y) == [op |-> "match", name |-> x, reads |-> {x, y}]

\* assert x.embeddings.shape == (1, d), or print(x.embeddings.shape).
Shape(x) == [op |-> "shape", name |-> x, reads |-> {x}]

\* Any other read of x: x[5].display(), zip(x, ...).
Use(x) == [op |-> "use", name |-> x, reads |-> {x}]

\* The statements of the p-th cell of a script.
Stmts(n, p) ==
    LET k == Cells(n)[p]
    IN CASE k = "login" /\ n \in Notebooks ->
              <<Import("finetuner"), Import("DocumentArray"),
                Import("Document")>>
         [] k = "pull" /\ n \in {"mclip", "clip"} ->
              <<Pull("train_data"), Pull("eval_data"), Pull("query_data"),
                Pull("index_data")>>
         [] k = "pull" /\ n \in {"img2img", "pointnet", "bert"} ->
              <<Pull("train_data"), Pull("query_data"), Pull("index_data")>>
         [] k = "get_model" /\ n = "mclip" ->
              <<GetModel("mclip_text_encoder"),
                GetModel("mclip_image_encoder")>>
         [] k = "get_model" /\ n = "clip" ->
              <<GetModel("clip_text_encoder"),
                GetModel("clip_image_encoder")>>
         [] k = "get_model" /\ n \in {"img2img", "pointnet", "bert"} ->
              <<GetModel("model")>>
         [] k = "encode" /\ n = "mclip" ->
              <<One("text_da", {"DocumentArray", "Document"}),
                One("image_da", {"DocumentArray", "Document"}),
                Encode("mclip_text_encoder", "text_da"),
                Encode("mclip_image_encoder", "image_da"),
                Shape("text_da"), Shape("image_da")>>
         [] k = "encode" /\ n = "clip" ->
              <<One("text_da", {"DocumentArray", "Document"}),
                One("image_da", {"DocumentArray", "Document"}),
                Encode("clip_text_encoder", "text_da"),
                Encode("clip_image_encoder", "image_da"),
                Shape("text_da"), Shape("image_da")>>
         [] k = "encode" /\ n = "img2img" ->
              <<One("query", {"DocumentArray", "query_data"}),
                Encode("model", "query"), Encode("model", "index_data"),
                Shape("query")>>
         [] k = "encode" /\ n = "bert" ->
              <<One("query", {"DocumentArray", "Document"}),
                Encode("model", "query"), Encode("model", "index_data"),
                Shape("query")>>
         [] k = "encode" /\ n = "pointnet" /\ p = 7 ->
              <<Encode("model", "query_data"), Encode("model", "index_data"),
                Shape("query")>>
         [] k = "match" /\ n \in {"img2img", "bert"} ->
              <<Match("query", "index_data")>>
         [] k = "match" /\ n = "pointnet" ->
              <<Match("query_data", "index_data")>>
         [] k = "build_model" /\ n = "pointnet" ->
              <<BuildModel("zero_shot_model", "finetuner")>>
         [] k = "encode" /\ n = "pointnet" /\ p # 7 ->
              <<Encode("zero_shot_model", "query_data"),
                Encode("zero_shot_model", "index_data")>>
         [] k = "display" /\ n = "pointnet" ->
              <<Use("query_data")>>
         [] OTHER -> <<>>

\* The four encode calls of a "Before and after" snippet, in their order:
\* model mq1 on q1, mi1 on i1, mq2 on q2, mi2 on i2.
Encodes(q1, i1, q2, i2, mq1, mi1, mq2, mi2) ==
    <<Encode(mq1, q1), Encode(mi1, i1), Encode(mq2, q2), Encode(mi2, i2)>>

\* The statements of each notebook's "Before and after" snippet.
Snippet(n) ==
    CASE n = "mclip" ->
           <<Import("build_model"),
             Copy("pt_query", "query_data"), Copy("pt_index", "index_data"),
             Copy("ft_query", "query_data"), Copy("ft_index", "index_data"),
             BuildModel("zero_shot_text_encoder", "build_model"),
             BuildModel("zero_shot_image_encoder", "build_model")>>
           \o Encodes("pt_query", "pt_index", "ft_query", "ft_index",
                      "zero_shot_text_encoder", "zero_shot_image_encoder",
                      "mclip_text_encoder", "mclip_image_encoder")
           \o <<Match("pt_query", "pt_index"), Match("ft_query", "ft_index"),
                Import("plot_matches")>>
      [] n = "clip" ->
           <<Import("copy"), Import("build_model"),
             Copy("pt_query", "query_data"), Copy("pt_index", "index_data"),
             Copy("ft_query", "query_data"), Copy("ft_index", "index_data"),
             BuildModel("zero_shot_text_encoder", "build_model"),
             BuildModel("zero_shot_image_encoder", "build_model")>>
           \o Encodes("pt_query", "pt_index", "ft_query", "ft_index",
                      "zero_shot_text_encoder", "zero_shot_image_encoder",
                      "clip_text_encoder", "clip_image_encoder")
           \o <<Match("pt_query", "pt_index"), Match("ft_query", "ft_index"),
                Import("plot_matches"), Use("plot_matches"),
                Use("pt_query"), Use("ft_query")>>
      [] n = "img2img" ->
           <<Import("copy"), Import("BytesIO"), Import("Image"),
             Copy("query_pt", "query_data"), Copy("index_pt", "index_data"),
             Copy("query_ft", "query_pt"), Copy("index_ft", "index_pt"),
             BuildModel("model_pt", "finetuner")>>
           \o Encodes("query_ft", "index_ft", "query_pt", "index_pt",
                      "model", "model", "model_pt", "model_pt")
           \o <<Match("query_ft", "index_ft"), Match("query_pt", "index_pt"),
                Use("query_pt"), Use("query_ft"), Use("Image"),
                Use("BytesIO")>>
      [] n = "bert" ->
           <<Import("copy"), Pull("query_pt"), Pull("index_pt"),
             Copy("query_ft", "query_pt"), Copy("index_ft", "index_pt"),
             BuildModel("model_pt", "finetuner")>>
           \o Encodes("query_ft", "index_ft", "query_pt", "index_pt",
                      "model", "model", "model_pt", "model_pt")
           \o <<Match("query_ft", "index_ft"), Match("query_py", "index_pt"),
                Use("query_pt"), Use("query_ft")>>
      [] OTHER -> <<>>

\* The effect of a statement whose reads are all bound.
Effect(e, st) ==
    LET x == st.name
    IN CASE st.op = "bind"   -> [e EXCEPT ![x] = st.value]
         [] st.op = "copy"   -> [e EXCEPT ![x] = e[st.from]]
         [] st.op = "encode" -> [e EXCEPT ![x].encoded = TRUE,
                                          ![x].by = e[st.model].kind]
         [] st.op = "match"  -> [e EXCEPT ![x].matches = e[x].by]
         [] OTHER            -> e

\* The kernel executes statements in order and stops at the first that
\* raises: a NameError for a name that is not bound.
RECURSIVE Exec(_, _, _)
Exec(e, sh, stmts) ==
    IF stmts = <<>>
      THEN [env |-> e, shapes |-> sh, error |-> FALSE, missing |-> {}]
    ELSE LET st == Head(stmts)
             x  == st.name
             un == {r \in st.reads : e[r] = Unbound}
             sh1 == IF st.op = "shape"
                      THEN sh \cup {[name |-> x, size |-> e[x].size,
                                     encoded |-> e[x].encoded]}
                      ELSE sh
         IN IF un # {}
              THEN [env |-> e, shapes |-> sh1, error |-> TRUE, missing |-> un]
              ELSE Exec(Effect(e, st), sh1, Tail(stmts))

\* A keyword argument of finetuner.fit.
Arg(k, v) == [key |-> k, value |-> v]

\* The arguments of each script's fit call.
FitArgs(n) ==
    CASE n = "mclip" ->
           {Arg("model", "given"), Arg("train_data", "given"),
            Arg("eval_data", "given"), Arg("epochs", "given"),
            Arg("learning_rate", "given"), Arg("loss", "CLIPLoss"),
            Arg("device", "given"), Arg("callbacks", "EvaluationCallback"),
            Arg("callbacks", "WandBLogger")}
      [] n = "clip" ->
           {Arg("model", "given"), Arg("train_data", "given"),
            Arg("eval_data", "given"), Arg("epochs", "given"),
            Arg("learning_rate", "given"), Arg("loss", "CLIPLoss"),
            Arg("device", "given"), Arg("callbacks", "EvaluationCallback")}
      [] n = "img2img" ->
           {Arg("model", "given"), Arg("train_data", "given"),
            Arg("batch_size", "given"), Arg("epochs", "given"),
            Arg("learning_rate", "given"), Arg("device", "given"),
            Arg("callbacks", "EvaluationCallback")}
      [] n = "pointnet" ->
           {Arg("model", "given"), Arg("train_data", "given"),
            Arg("epochs", "given"), Arg("batch_size", "given"),
            Arg("learning_rate", "given"), Arg("loss", "TripletMarginLoss"),
            Arg("device", "given"), Arg("callbacks", "EvaluationCallback")}
      [] n = "bert" ->
           {Arg("model", "given"), Arg("train_data", "given"),
            Arg("loss", "TripletMarginLoss"), Arg("optimizer", "given"),
            Arg("learning_rate", "given"), Arg("epochs", "given"),
            Arg("batch_size", "given"), Arg("device", "given"),
            Arg("callbacks", "EvaluationCallback")}
      [] n = "runjob" ->
           {Arg("model", "given"), Arg("train_data", "given")}

\* What the text below each notebook's fit cell says the call sets.
Said(n) ==
    CASE n = "mclip" ->
           {Arg("model", "given"), Arg("train_data", "given"),
            Arg("eval_data", "given"), Arg("epochs", "given"),
            Arg("learning_rate", "given"), Arg("loss", "CLIPLoss"),
            Arg("callbacks", "EvaluationCallback"),
            Arg("callbacks", "WandBLogger")}
      [] n = "clip" ->
           {Arg("model", "given"), Arg("train_data", "given"),
            Arg("eval_data", "given"), Arg("epochs", "given"),
            Arg("learning_rate", "given"), Arg("loss", "CLIPLoss"),
            Arg("callbacks", "EvaluationCallback")}
      [] n = "img2img" ->
           {Arg("model", "given"), Arg("run_name", "given"),
            Arg("description", "given"), Arg("train_data", "given"),
            Arg("loss", "TripletMarginLoss"),
            Arg("callbacks", "EvaluationCallback"), Arg("epochs", "given"),
            Arg("learning_rate", "given")}
      [] n = "pointnet" ->
           {Arg("model", "given"), Arg("train_data", "given"),
            Arg("epochs", "given"), Arg("batch_size", "given"),
            Arg("learning_rate", "given"), Arg("loss", "TripletMarginLoss"),
            Arg("callbacks", "EvaluationCallback")}
      [] n = "bert" ->
           {Arg("model", "given"), Arg("train_data", "given"),
            Arg("experiment_name", "given"), Arg("run_name", "given"),
            Arg("description", "given"), Arg("loss", "TripletMarginLoss"),
            Arg("miner", "TripletMarginMiner"),
            Arg("callbacks", "EvaluationCallback")}
      [] OTHER -> {}

\* The name the service gives a run whose fit call passes no run_name.
GeneratedName == "vigilant-tereshkova"

\* The name under which a fit call with these arguments registers the run.
RunName(args) ==
    IF \E a \in args : a.key = "run_name"
      THEN "run_name"
      ELSE GeneratedName

\* The argument of get_run in each notebook's reconnect snippet: the name
\* attribute of the handle, or a literal.
GetRunArg(n) ==
    IF n = "bert" THEN "finetune-quora-dataset-bert-base-cased" ELSE "run.name"

----------------------------------------------------------------------------
\* The client library, as the scripts use it

\* run.status(): the status the server holds for the run.
status(r) == r

\* run.stream_logs() is exhausted once the remote job is in a terminal state.
stream_logs_exhausted(r) == r \in Terminal

\* run.stream_logs() yields an entry while the job is in progress.
stream_logs_yields(r) == r = "STARTED"

----------------------------------------------------------------------------
\* The workflows

\* Directories of the external repository that can hold test files.
Paths == {"tests/unit/gpu", "tests/unit.gpu"}

\* A path as the shell sees it: its names and the characters between them.
PathChars(p) ==
    CASE p = "tests/unit/gpu" -> <<"tests", "/", "unit", "/", "gpu">>
      [] p = "tests/unit.gpu" -> <<"tests", "/", "unit", ".", "gpu">>

\* The jobs of each workflow.
JobNames(w) ==
    CASE w = "CI"      -> {"check-codestyle", "run-tests", "success-all-test"}
      [] w = "Core-CI" -> {"style-flake", "style-black", "style-isort",
                           "prep-testbed", "test-core", "test-cuda",
                           "get-coverage", "success-tests"}
      [] OTHER         -> {}

\* Mutant of Needs: get-coverage does not wait for test-cuda.
NeedsNoCuda(n) ==
    CASE n = "prep-testbed"     -> {"style-flake", "style-black", "style-isort"}
      [] n = "test-core"        -> {"prep-testbed"}
      [] n = "test-cuda"        -> {"prep-testbed"}
      [] n = "get-coverage"     -> {"prep-testbed", "test-core"}
      [] n = "success-tests"    -> {"get-coverage", "test-core", "test-cuda"}
      [] n = "success-all-test" -> {"run-tests"}
      [] OTHER                  -> {}

\* needs: of each job.
Needs(n) ==
    CASE n = "prep-testbed"     -> {"style-flake", "style-black", "style-isort"}
      [] n = "test-core"        -> {"prep-testbed"}
      [] n = "test-cuda"        -> {"prep-testbed"}
      [] n = "get-coverage"     -> {"prep-testbed", "test-core", "test-cuda"}
      [] n = "success-tests"    -> {"get-coverage", "test-core", "test-cuda"}
      [] n = "success-all-test" -> {"run-tests"}
      [] OTHER                  -> {}

\* The merge-blocking jobs, which carry `if: always()`.
GateJobs == {"success-tests", "success-all-test"}

\* Mutant of IfAlways: no job carries the condition.
IfNever(n) == n \in {}

IfAlways(n) == n \in GateJobs

\* The jobs with strategy.matrix.tests-path.
MatrixJobs == {"test-core", "test-cuda"}

\* The number of steps of each job.
NSteps(n) ==
    CASE n \in {"check-codestyle", "run-tests"}             -> 4
      [] n \in {"style-flake", "style-black", "style-isort"} -> 5
      [] n = "prep-testbed"                                  -> 6
      [] n \in MatrixJobs                                    -> 6
      [] n = "get-coverage"                                  -> 7
      [] n \in GateJobs                                      -> 3

\* Every job instance a run can have: <<job, matrix entry>>, "-" standing for
\* a job without matrix and for a matrix job that has not been expanded.
AllInstances ==
    {<<n, "-">> : n \in JobNames("CI") \cup JobNames("Core-CI")}
        \cup (MatrixJobs \X Paths)

Completed == {"success", "failure", "cancelled", "skipped"}

\* The matrix of a job, from the outputs of prep-testbed.
Matrix(n) == IF n = "test-core" THEN coreMatrix ELSE cudaMatrix

\* A matrix job is expanded into one job per entry once the outputs of
\* prep-testbed are there.
Instances(n) ==
    IF n \in MatrixJobs /\ jobs[<<"prep-testbed", "-">>] = "success"
      THEN {<<n, p>> : p \in Matrix(n)}
      ELSE {<<n, "-">>}

\* The job instances of the run.
Active == UNION {Instances(n) : n \in JobNames(wf)}

\* All instances of a job have concluded.
JobCompleted(n) == \A i \in Instances(n) : jobs[i] \in Completed

\* needs.<job>.result is success.
JobSucceeded(n) == \A i \in Instances(n) : jobs[i] = "success"

\* The order in which workflow-conclusion-action ranks conclusions, from
\* best to worst.
Rank(c) ==
    CASE c = "skipped"   -> 1
      [] c = "success"   -> 2
      [] c = "cancelled" -> 3
      [] c = "failure"   -> 6

\* workflow-conclusion-action: the worst conclusion among the jobs of the run
\* that have concluded (the fallback is skipped).
WorkflowConclusion(cs) ==
    IF cs = {}
      THEN "skipped"
      ELSE CHOOSE c \in cs : \A d \in cs : Rank(d) <= Rank(c)

\* The values uuidgen can print.
Uuids == {"uuid-a", "uuid-b"}

\* The jobs that check out the external repository, and the step that does.
ChecksOut(n) == n \in JobNames("Core-CI") \ GateJobs

CheckoutStep == 3

\* tr "/" . : every "/" becomes ".", every other character stays.
Tr(s) == [k \in 1..Len(s) |-> IF s[k] = "/" THEN "." ELSE s[k]]

\* COVERAGE_NAME of a matrix job:
\* .coverage.core.$( echo <tests-path> | tr "/" . ), cuda for test-cuda.
CoverageName(i) ==
    <<IF i[1] = "test-core" THEN ".coverage.core." ELSE ".coverage.cuda.">>
        \o Tr(PathChars(i[2]))

\* name: coverage-<artifact-id> of upload-artifact and download-artifact.
ArtifactName(id) == <<"coverage-", id>>

\* upload-artifact: the file is added to the artifact of that name, replacing
\* a file of the same name already in it.
Upload(st, name, file, i) ==
    {r \in st : ~(r.name = name /\ r.file = file)}
        \cup {[name |-> name, file |-> file, from |-> i]}

\* download-artifact: the files of the artifact of that name.
Download(st, name) == {r \in st : r.name = name}

\* The jobs of the two matrices.
MatrixInstances == {i \in Active : i[1] \in MatrixJobs /\ i[2] # "-"}

\* No workflow run.
WfIdle ==
    /\ wf = "none"
    /\ jobs = [i \in AllInstances |-> "queued"]
    /\ steps = [i \in AllInstances |-> 0]
    /\ conclusion = "unset"
    /\ coreDirs = {}
    /\ cudaDirs = {}
    /\ coreMatrix = {}
    /\ cudaMatrix = {}
    /\ artifactId = "unset"
    /\ store = {}
    /\ downloaded = {}
    /\ head = 1
    /\ checkedOut = [i \in AllInstances |-> 0]

\* File names a test directory can hold.
FileNames == {<<"test_", "a", ".py">>, <<"test_", "b", ".py">>,
              <<"conftest", ".py">>}

\* A file of the tree: <<directory, name>>.
Slots == Paths \X FileNames

\* What a file holds: neither test function nor gpu mark, test functions,
\* test functions of which one carries pytest.mark.gpu, or the mark without
\* any test function.
Contents == {"plain", "tests", "gpu", "mark"}

\* The files the tree holds.
Present(t) == {f \in Slots : t[f] # "absent"}

\* No tree is looked at.
TreeIdle ==
    /\ tree = [f \in Slots |-> "absent"]
    /\ coreOut = <<>>
    /\ cudaOut = <<>>
    /\ gathered = 0
    /\ ran = {}

\* plot_matches is not called.
PlotIdle ==
    /\ variant = "none"
    /\ pt_query = <<>>
    /\ num_samples = 0
    /\ it = 0
    /\ loopI = 0
    /\ seenTexts = {}
    /\ displayed = <<>>
    /\ returned = FALSE

\* No script runs.
NbIdle ==
    /\ nb = "none"
    /\ pc = 1
    /\ phase = "idle"
    /\ halted = FALSE
    /\ run = "NONE"
    /\ handle = "none"
    /\ seen = {}
    /\ serverSteps = 0
    /\ fitCount = 0
    /\ printed = 0
    /\ savedOn = "NONE"
    /\ artifact = "none"
    /\ observed = "NONE"
    /\ firstObserved = "NONE"
    /\ stepsAtFirst = 0
    /\ done = {}
    /\ lastCall = "none"
    /\ env = [x \in Names |-> Unbound]
    /\ shapes = {}
    /\ nameErrors = {}
    /\ snippetRun = FALSE
    /\ fitArgs = {}
    /\ registered = "none"
    /\ lookedUp = "none"

----------------------------------------------------------------------------
Init ==
    /\ nb \in Scripts
    /\ pc = 1
    /\ phase = "idle"
    /\ halted = FALSE
    /\ run = "NONE"
    /\ handle = "none"
    /\ seen = {}
    /\ serverSteps = 0
    /\ fitCount = 0
    /\ printed = 0
    /\ savedOn = "NONE"
    /\ artifact = "none"
    /\ observed = "NONE"
    /\ firstObserved = "NONE"
    /\ stepsAtFirst = 0
    /\ done = {}
    /\ lastCall = "none"
    /\ env = [x \in Names |-> Unbound]
    /\ shapes = {}
    /\ nameErrors = {}
    /\ snippetRun = FALSE
    /\ fitArgs = {}
    /\ registered = "none"
    /\ lookedUp = "none"
    /\ WfIdle
    /\ TreeIdle
    /\ PlotIdle

\* The kernel starts executing the cell at pc.
CellBegin ==
    /\ phase = "idle"
    /\ ~halted
    /\ Kind # "end"
    /\ phase' = "busy"
    /\ lastCall' = "begin"
    /\ UNCHANGED <<env, shapes, nameErrors, snippetRun, fitArgs, registered, lookedUp>>
    /\ UNCHANGED <<nb, pc, halted, run, handle, seen, serverSteps, fitCount,
                   printed, savedOn, artifact, observed, firstObserved,
                   stepsAtFirst, done>>

\* login, pull, get_model, encode, match, build_model return.
EndSimple ==
    /\ phase = "busy"
    /\ Kind \in SimpleKinds
    /\ phase' = "idle"
    /\ done' = done \cup {Kind}
    /\ lastCall' = Kind
    /\ LET r == Exec(env, shapes, Stmts(nb, pc))
       IN /\ env' = r.env
          /\ shapes' = r.shapes
          /\ nameErrors' = nameErrors \cup {[where |-> "cell", name |-> x] : x \in r.missing}
          /\ halted' = r.error
          /\ pc' = IF r.error THEN pc ELSE Advance(pc)
    /\ UNCHANGED <<nb, run, handle, seen, serverSteps, fitCount,
                   printed, savedOn, artifact, observed, firstObserved,
                   stepsAtFirst, fitArgs, registered, lookedUp, snippetRun>>

\* After a cell raised, the user runs the cell below it by hand.
Resume ==
    /\ nb \in Notebooks
    /\ halted
    /\ phase = "idle"
    /\ halted' = FALSE
    /\ pc' = Advance(pc)
    /\ lastCall' = "resume"
    /\ UNCHANGED <<nb, phase, run, handle, seen, serverSteps, fitCount,
                   printed, savedOn, artifact, observed, firstObserved,
                   stepsAtFirst, done, env, shapes, nameErrors, snippetRun,
                   fitArgs, registered, lookedUp>>

\* After the last code cell, the user runs the "Before and after" snippet.
RunSnippet ==
    /\ nb \in Notebooks
    /\ Kind = "end"
    /\ phase = "idle"
    /\ ~halted
    /\ ~snippetRun
    /\ Snippet(nb) # <<>>
    /\ snippetRun' = TRUE
    /\ lastCall' = "snippet"
    /\ LET r == Exec(env, shapes, Snippet(nb))
       IN /\ env' = r.env
          /\ nameErrors' = nameErrors \cup {[where |-> "snippet", name |-> x] : x \in r.missing}
    /\ UNCHANGED <<nb, pc, phase, halted, run, handle, seen, serverSteps,
                   fitCount, printed, savedOn, artifact, observed,
                   firstObserved, stepsAtFirst, done, shapes, fitArgs,
                   registered, lookedUp>>

\* finetuner.fit returns: the run is created and submitted to the job queue.
EndFit ==
    /\ phase = "busy"
    /\ Kind = "fit"
    /\ phase' = "idle"
    /\ pc' = Advance(pc)
    /\ run' = "CREATED"
    /\ seen' = {"CREATED"}
    /\ handle' = "fit"
    /\ fitCount' = fitCount + 1
    /\ done' = done \cup {"fit"}
    /\ lastCall' = "fit"
    /\ fitArgs' = FitArgs(nb)
    /\ registered' = RunName(FitArgs(nb))
    /\ UNCHANGED <<nb, halted, serverSteps, printed, savedOn, artifact,
                   observed, firstObserved, stepsAtFirst, env, shapes, nameErrors, snippetRun,
                   lookedUp>>

\* One iteration of `for entry in run.stream_logs(): print(entry)`.
StreamEntry ==
    /\ phase = "busy"
    /\ Kind = "stream"
    /\ stream_logs_yields(run)
    /\ printed < MaxLog
    /\ printed' = printed + 1
    /\ lastCall' = "stream_logs"
    /\ UNCHANGED <<env, shapes, nameErrors, snippetRun, fitArgs, registered, lookedUp>>
    /\ UNCHANGED <<nb, pc, phase, halted, run, handle, seen, serverSteps,
                   fitCount, savedOn, artifact, observed, firstObserved,
                   stepsAtFirst, done>>

\* Mutant of EndStream: the loop breaks after the first printed entry.
EndStreamBreak ==
    /\ phase = "busy"
    /\ Kind = "stream"
    /\ (stream_logs_exhausted(run) \/ printed >= 1)
    /\ phase' = "idle"
    /\ pc' = Advance(pc)
    /\ done' = done \cup {"stream"}
    /\ lastCall' = "stream_logs"
    /\ UNCHANGED <<env, shapes, nameErrors, snippetRun, fitArgs, registered, lookedUp>>
    /\ UNCHANGED <<nb, halted, run, handle, seen, serverSteps, fitCount,
                   printed, savedOn, artifact, observed, firstObserved,
                   stepsAtFirst>>

\* Mutant of EndStream: the loop is left only when the job has FINISHED.
EndStreamOnlyFinished ==
    /\ phase = "busy"
    /\ Kind = "stream"
    /\ run = "FINISHED"
    /\ phase' = "idle"
    /\ pc' = Advance(pc)
    /\ done' = done \cup {"stream"}
    /\ lastCall' = "stream_logs"
    /\ UNCHANGED <<env, shapes, nameErrors, snippetRun, fitArgs, registered, lookedUp>>
    /\ UNCHANGED <<nb, halted, run, handle, seen, serverSteps, fitCount,
                   printed, savedOn, artifact, observed, firstObserved,
                   stepsAtFirst>>

\* The for loop ends when the iterator is exhausted.
EndStream ==
    /\ phase = "busy"
    /\ Kind = "stream"
    /\ stream_logs_exhausted(run)
    /\ phase' = "idle"
    /\ pc' = Advance(pc)
    /\ done' = done \cup {"stream"}
    /\ lastCall' = "stream_logs"
    /\ UNCHANGED <<env, shapes, nameErrors, snippetRun, fitArgs, registered, lookedUp>>
    /\ UNCHANGED <<nb, halted, run, handle, seen, serverSteps, fitCount,
                   printed, savedOn, artifact, observed, firstObserved,
                   stepsAtFirst>>

\* artifact = run.save_artifact(name): invoked whatever the status of the run.
\* On a run that did not finish, the call either raises (the kernel stops) or
\* returns something that is no artifact.
EndSave ==
    /\ phase = "busy"
    /\ Kind = "save"
    /\ savedOn' = run
    /\ phase' = "idle"
    /\ lastCall' = "save_artifact"
    /\ done' = done \cup {"save"}
    /\ IF run = "FINISHED"
         THEN /\ artifact' = "saved"
              /\ halted' = FALSE
              /\ pc' = Advance(pc)
         ELSE \E raised \in BOOLEAN :
              /\ halted' = raised
              /\ artifact' = IF raised THEN "none" ELSE "invalid"
              /\ pc' = IF raised THEN pc ELSE Advance(pc)
    /\ UNCHANGED <<env, shapes, nameErrors, snippetRun, fitArgs, registered, lookedUp>>
    /\ UNCHANGED <<nb, run, handle, seen, serverSteps, fitCount, printed,
                   observed, firstObserved, stepsAtFirst>>

\* Mutant of StatusCall: the handle answers with the status it was created
\* with instead of asking the server.
StatusCallCached ==
    /\ observed' = "CREATED"
    /\ firstObserved' = IF firstObserved = "NONE" THEN "CREATED" ELSE firstObserved
    /\ stepsAtFirst' = IF firstObserved = "NONE" THEN serverSteps ELSE stepsAtFirst
    /\ lastCall' = "status"
    /\ UNCHANGED <<env, shapes, nameErrors, snippetRun, fitArgs, registered, lookedUp>>
    /\ UNCHANGED <<nb, halted, run, handle, seen, serverSteps, fitCount,
                   printed, savedOn, artifact>>

\* What a run.status() call records.
StatusCall ==
    /\ observed' = status(run)
    /\ firstObserved' = IF firstObserved = "NONE" THEN status(run) ELSE firstObserved
    /\ stepsAtFirst' = IF firstObserved = "NONE" THEN serverSteps ELSE stepsAtFirst
    /\ lastCall' = "status"
    /\ UNCHANGED <<env, shapes, nameErrors, snippetRun, fitArgs, registered, lookedUp>>
    /\ UNCHANGED <<nb, halted, run, handle, seen, serverSteps, fitCount,
                   printed, savedOn, artifact>>

\* print(f'Run status: {run.status()}') as a statement of the script.
EndStatus ==
    /\ phase = "busy"
    /\ Kind = "status"
    /\ StatusCall
    /\ phase' = "idle"
    /\ pc' = Advance(pc)
    /\ done' = done \cup {"status"}

\* Between cells the user may monitor the run: run.status().
MonitorStatus ==
    /\ nb \in Notebooks
    /\ phase = "idle"
    /\ run # "NONE"
    /\ StatusCall
    /\ UNCHANGED <<pc, phase, done>>

\* Between cells the user may monitor the run: run.logs().
MonitorLogs ==
    /\ nb \in Notebooks
    /\ phase = "idle"
    /\ run # "NONE"
    /\ lastCall' = "logs"
    /\ UNCHANGED <<env, shapes, nameErrors, snippetRun, fitArgs, registered, lookedUp>>
    /\ UNCHANGED <<nb, pc, phase, halted, run, handle, seen, serverSteps,
                   fitCount, printed, savedOn, artifact, observed,
                   firstObserved, stepsAtFirst, done>>

\* Mutant of MonitorGetRun: reconnecting registers the run anew.
GetRunRecreates ==
    /\ nb \in Notebooks
    /\ phase = "idle"
    /\ run # "NONE"
    /\ run' = "CREATED"
    /\ handle' = "get_run"
    /\ lastCall' = "get_run"
    /\ lookedUp' = registered
    /\ UNCHANGED <<nb, pc, phase, halted, seen, serverSteps, fitCount,
                   printed, savedOn, artifact, observed, firstObserved,
                   stepsAtFirst, done, env, shapes, nameErrors, snippetRun, fitArgs, registered>>

\* The reconnect snippet: run = finetuner.get_run(name).
MonitorGetRun ==
    /\ nb \in Notebooks
    /\ phase = "idle"
    /\ run # "NONE"
    /\ lookedUp' =
         IF GetRunArg(nb) = "run.name" THEN registered ELSE GetRunArg(nb)
    /\ handle' = IF lookedUp' = registered THEN "get_run" ELSE handle
    /\ lastCall' = "get_run"
    /\ UNCHANGED <<nb, pc, phase, halted, run, seen, serverSteps, fitCount,
                   printed, savedOn, artifact, observed, firstObserved,
                   stepsAtFirst, done, env, shapes, nameErrors, snippetRun, fitArgs, registered>>

\* Server: the queued job is picked up.
ServerStart ==
    /\ run = "CREATED"
    /\ run' = "STARTED"
    /\ seen' = seen \cup {"STARTED"}
    /\ serverSteps' = serverSteps + 1
    /\ lastCall' = "server"
    /\ UNCHANGED <<env, shapes, nameErrors, snippetRun, fitArgs, registered, lookedUp>>
    /\ UNCHANGED <<nb, pc, phase, halted, handle, fitCount, printed, savedOn,
                   artifact, observed, firstObserved, stepsAtFirst, done>>

\* Server: the job finished successfully.
ServerFinish ==
    /\ run = "STARTED"
    /\ run' = "FINISHED"
    /\ seen' = seen \cup {"FINISHED"}
    /\ serverSteps' = serverSteps + 1
    /\ lastCall' = "server"
    /\ UNCHANGED <<env, shapes, nameErrors, snippetRun, fitArgs, registered, lookedUp>>
    /\ UNCHANGED <<nb, pc, phase, halted, handle, fitCount, printed, savedOn,
                   artifact, observed, firstObserved, stepsAtFirst, done>>

\* Mutant of ServerFail: a job already marked FINISHED can still be failed.
ServerFailLate ==
    /\ run \in {"STARTED", "FINISHED"}
    /\ run' = "FAILED"
    /\ seen' = seen \cup {"FAILED"}
    /\ serverSteps' = serverSteps + 1
    /\ lastCall' = "server"
    /\ UNCHANGED <<env, shapes, nameErrors, snippetRun, fitArgs, registered, lookedUp>>
    /\ UNCHANGED <<nb, pc, phase, halted, handle, fitCount, printed, savedOn,
                   artifact, observed, firstObserved, stepsAtFirst, done>>

\* Server: the job failed.
ServerFail ==
    /\ run = "STARTED"
    /\ run' = "FAILED"
    /\ seen' = seen \cup {"FAILED"}
    /\ serverSteps' = serverSteps + 1
    /\ lastCall' = "server"
    /\ UNCHANGED <<env, shapes, nameErrors, snippetRun, fitArgs, registered, lookedUp>>
    /\ UNCHANGED <<nb, pc, phase, halted, handle, fitCount, printed, savedOn,
                   artifact, observed, firstObserved, stepsAtFirst, done>>

Next ==
    \/ CellBegin /\ UNCHANGED <<wfVars, trVars, plVars>>
    \/ EndSimple /\ UNCHANGED <<wfVars, trVars, plVars>>
    \/ Resume /\ UNCHANGED <<wfVars, trVars, plVars>>
    \/ RunSnippet /\ UNCHANGED <<wfVars, trVars, plVars>>
    \/ EndFit /\ UNCHANGED <<wfVars, trVars, plVars>>
    \/ StreamEntry /\ UNCHANGED <<wfVars, trVars, plVars>>
    \/ EndStream /\ UNCHANGED <<wfVars, trVars, plVars>>
    \/ EndSave /\ UNCHANGED <<wfVars, trVars, plVars>>
    \/ EndStatus /\ UNCHANGED <<wfVars, trVars, plVars>>
    \/ MonitorStatus /\ UNCHANGED <<wfVars, trVars, plVars>>
    \/ MonitorLogs /\ UNCHANGED <<wfVars, trVars, plVars>>
    \/ MonitorGetRun /\ UNCHANGED <<wfVars, trVars, plVars>>
    \/ ServerStart /\ UNCHANGED <<wfVars, trVars, plVars>>
    \/ ServerFinish /\ UNCHANGED <<wfVars, trVars, plVars>>
    \/ ServerFail /\ UNCHANGED <<wfVars, trVars, plVars>>

vars == <<nbVars, wfVars, trVars, plVars>>

Spec == Init /\ [][Next]_vars

\* The server makes progress on a submitted job, and the kernel leaves the
\* stream loop once its iterator is exhausted.
FairSpec ==
    /\ Spec
    /\ WF_vars(ServerStart /\ UNCHANGED <<wfVars, trVars, plVars>>)
    /\ WF_vars((ServerFinish \/ ServerFail) /\ UNCHANGED <<wfVars, trVars, plVars>>)
    /\ WF_vars(EndStream /\ UNCHANGED <<wfVars, trVars, plVars>>)

----------------------------------------------------------------------------
\* A workflow run

\* A push starts CI; a repository_dispatch of type triggered_from_core starts
\* Core-CI on the tree of the branch it names.
WfInit ==
    /\ NbIdle
    /\ wf \in {"CI", "Core-CI"}
    /\ jobs = [i \in AllInstances |-> "queued"]
    /\ steps = [i \in AllInstances |-> 0]
    /\ conclusion = "unset"
    /\ coreDirs \in (SUBSET Paths) \ {{}}
    /\ cudaDirs \in (SUBSET coreDirs) \ {{}}
    /\ (wf = "CI" => coreDirs = Paths /\ cudaDirs = Paths)
    /\ coreMatrix = {}
    /\ cudaMatrix = {}
    /\ artifactId = "unset"
    /\ store = {}
    /\ downloaded = {}
    /\ head = 1
    /\ checkedOut = [i \in AllInstances |-> 0]
    /\ TreeIdle
    /\ PlotIdle

\* A runner picks up a job: every job it needs has succeeded, or the job
\* carries `if: always()` and every job it needs has concluded.
JobStart(i) ==
    /\ i \in Active
    /\ jobs[i] = "queued"
    /\ IF IfAlways(i[1])
         THEN \A m \in Needs(i[1]) : JobCompleted(m)
         ELSE \A m \in Needs(i[1]) : JobSucceeded(m)
    /\ jobs' = [jobs EXCEPT ![i] = "in_progress"]
    /\ UNCHANGED <<wf, steps, conclusion, coreDirs, cudaDirs, coreMatrix,
                   cudaMatrix, covVars>>

\* A job without `if: always()` is skipped when a job it needs has concluded
\* otherwise than with success.
JobSkip(i) ==
    /\ i \in Active
    /\ jobs[i] = "queued"
    /\ ~IfAlways(i[1])
    /\ \A m \in Needs(i[1]) : JobCompleted(m)
    /\ \E m \in Needs(i[1]) : ~JobSucceeded(m)
    /\ jobs' = [jobs EXCEPT ![i] = "skipped"]
    /\ UNCHANGED <<wf, steps, conclusion, coreDirs, cudaDirs, coreMatrix,
                   cudaMatrix, covVars>>

\* A step of a job succeeds; the last step concludes the job with success.
\* The gather steps of prep-testbed set its matrix outputs.
StepOk(i) ==
    /\ i \in Active
    /\ ~IfAlways(i[1])
    /\ jobs[i] = "in_progress"
    /\ steps' = [steps EXCEPT ![i] = @ + 1]
    /\ jobs' = [jobs EXCEPT ![i] =
                  IF steps[i] + 1 = NSteps(i[1]) THEN "success" ELSE @]
    /\ coreMatrix' =
         IF i[1] = "prep-testbed" /\ steps[i] + 1 = 4 THEN coreDirs ELSE coreMatrix
    /\ cudaMatrix' =
         IF i[1] = "prep-testbed" /\ steps[i] + 1 = 5 THEN cudaDirs ELSE cudaMatrix
    /\ \E u \in Uuids :
         artifactId' =
           IF i[1] = "prep-testbed" /\ steps[i] + 1 = 6 THEN u ELSE artifactId
    /\ checkedOut' =
         IF ChecksOut(i[1]) /\ steps[i] + 1 = CheckoutStep
           THEN [checkedOut EXCEPT ![i] = head]
           ELSE checkedOut
    /\ store' =
         IF i[1] \in MatrixJobs /\ steps[i] + 1 = 6
           THEN Upload(store, ArtifactName(artifactId), CoverageName(i), i)
           ELSE store
    /\ downloaded' =
         IF i[1] = "get-coverage" /\ steps[i] + 1 = 5
           THEN Download(store, ArtifactName(artifactId))
           ELSE downloaded
    /\ UNCHANGED <<wf, conclusion, coreDirs, cudaDirs, head>>

\* Mutant of StepFail: with fail-fast, the failure of a matrix job cancels
\* the jobs of the other entries of its matrix that have not concluded.
StepFailFast(i) ==
    /\ i \in Active
    /\ ~IfAlways(i[1])
    /\ jobs[i] = "in_progress"
    /\ jobs' = [j \in AllInstances |->
                  IF j = i THEN "failure"
                  ELSE IF /\ i[1] \in MatrixJobs
                          /\ j \in Instances(i[1])
                          /\ jobs[j] \in {"queued", "in_progress"}
                         THEN "cancelled"
                         ELSE jobs[j]]
    /\ steps' = [j \in AllInstances |->
                   IF jobs'[j] # jobs[j] THEN 0 ELSE steps[j]]
    /\ UNCHANGED <<wf, conclusion, coreDirs, cudaDirs, coreMatrix, cudaMatrix,
                   covVars>>

\* A step of a job fails: the job concludes with failure.
StepFail(i) ==
    /\ i \in Active
    /\ ~IfAlways(i[1])
    /\ jobs[i] = "in_progress"
    /\ jobs' = [jobs EXCEPT ![i] = "failure"]
    /\ steps' = [steps EXCEPT ![i] = 0]
    /\ UNCHANGED <<wf, conclusion, coreDirs, cudaDirs, coreMatrix, cudaMatrix,
                   covVars>>

\* GitHub cancels a running job (the run is cancelled, or the job exceeds its
\* time limit): the job concludes with cancelled.
JobCancel(i) ==
    /\ i \in Active
    /\ ~IfAlways(i[1])
    /\ jobs[i] = "in_progress"
    /\ jobs' = [jobs EXCEPT ![i] = "cancelled"]
    /\ steps' = [steps EXCEPT ![i] = 0]
    /\ UNCHANGED <<wf, conclusion, coreDirs, cudaDirs, coreMatrix, cudaMatrix,
                   covVars>>

\* First step of the merge-blocking job: workflow-conclusion-action sets
\* WORKFLOW_CONCLUSION from the jobs of the run that have concluded so far.
GateConclusion(i) ==
    /\ i \in Active
    /\ IfAlways(i[1])
    /\ jobs[i] = "in_progress"
    /\ steps[i] = 0
    /\ conclusion' =
         WorkflowConclusion({jobs[j] : j \in Active \ {i}} \cap Completed)
    /\ steps' = [steps EXCEPT ![i] = 1]
    /\ UNCHANGED <<wf, jobs, coreDirs, cudaDirs, coreMatrix, cudaMatrix,
                   covVars>>

\* Second step, "Check Failure": runs `exit 1` if WORKFLOW_CONCLUSION is
\* 'failure' and is skipped otherwise.
GateCheckFailure(i) ==
    /\ i \in Active
    /\ IfAlways(i[1])
    /\ jobs[i] = "in_progress"
    /\ steps[i] = 1
    /\ IF conclusion = "failure"
         THEN /\ jobs' = [jobs EXCEPT ![i] = "failure"]
              /\ steps' = steps
         ELSE /\ jobs' = jobs
              /\ steps' = [steps EXCEPT ![i] = 2]
    /\ UNCHANGED <<wf, conclusion, coreDirs, cudaDirs, coreMatrix, cudaMatrix,
                   covVars>>

\* Third step, "Success": runs if no earlier step failed, and ends the job.
GateSuccess(i) ==
    /\ i \in Active
    /\ IfAlways(i[1])
    /\ jobs[i] = "in_progress"
    /\ steps[i] = 2
    /\ jobs' = [jobs EXCEPT ![i] = "success"]
    /\ steps' = [steps EXCEPT ![i] = 3]
    /\ UNCHANGED <<wf, conclusion, coreDirs, cudaDirs, coreMatrix, cudaMatrix,
                   covVars>>

\* The merge-blocking job of the run.
Gate == IF wf = "CI" THEN <<"success-all-test", "-">> ELSE <<"success-tests", "-">>

\* Every job of the run has concluded.
RunCompleted == \A i \in Active : jobs[i] \in Completed

WfNext ==
    \E i \in AllInstances :
        \/ JobStart(i) /\ UNCHANGED <<nbVars, trVars, plVars>>
        \/ JobSkip(i) /\ UNCHANGED <<nbVars, trVars, plVars>>
        \/ StepOk(i) /\ UNCHANGED <<nbVars, trVars, plVars>>
        \/ StepFail(i) /\ UNCHANGED <<nbVars, trVars, plVars>>
        \/ JobCancel(i) /\ UNCHANGED <<nbVars, trVars, plVars>>
        \/ GateConclusion(i) /\ UNCHANGED <<nbVars, trVars, plVars>>
        \/ GateCheckFailure(i) /\ UNCHANGED <<nbVars, trVars, plVars>>
        \/ GateSuccess(i) /\ UNCHANGED <<nbVars, trVars, plVars>>

WfSpec == WfInit /\ [][WfNext]_vars

\* A run over a tree with one directory of gpu tests.
WfFairInit == WfInit /\ (wf = "Core-CI" => Cardinality(cudaDirs) = 1)

\* Runners pick up the jobs that can start, and steps end.
WfFairSpec == WfFairInit /\ [][WfNext]_vars /\ WF_vars(WfNext)

\* The dispatched branch receives a commit while the run is in progress.
Push ==
    /\ wf = "Core-CI"
    /\ head < MaxCommits
    /\ ~RunCompleted
    /\ head' = head + 1
    /\ UNCHANGED <<wf, jobs, steps, conclusion, coreDirs, cudaDirs, coreMatrix,
                   cudaMatrix, artifactId, store, downloaded, checkedOut>>

PushNext ==
    \/ WfNext
    \/ Push /\ UNCHANGED <<nbVars, trVars, plVars>>

\* A Core-CI run over a tree with one test directory.
PushInit ==
    /\ WfInit
    /\ wf = "Core-CI"
    /\ Cardinality(coreDirs) = 1

\* A Core-CI run on a branch that can move.
PushSpec == PushInit /\ [][PushNext]_vars

----------------------------------------------------------------------------
\* The test matrix of a tree

\* The pattern test_*.py, of find -name and of TESTS_PATH.
MatchesTestGlob(name) ==
    Len(name) >= 2 /\ name[1] = "test_" /\ name[Len(name)] = ".py"

\* Whether grep finds the pattern in a file of that content.
Contains(c, pattern) ==
    CASE pattern = "def test_"       -> c \in {"tests", "gpu"}
      [] pattern = "pytest.mark.gpu" -> c \in {"gpu", "mark"}

\* The elements of a set, one per line, in the order the tool meets them.
RECURSIVE Lines(_)
Lines(S) ==
    IF S = {} THEN <<>>
    ELSE LET x == CHOOSE y \in S : TRUE IN <<x>> \o Lines(S \ {x})

\* find 'tests' -name 'test_*.py'
Find(t) == Lines({f \in Present(t) : MatchesTestGlob(f[2])})

\* xargs grep -l pattern
GrepL(t, files, pattern) ==
    SelectSeq(files, LAMBDA f : Contains(t[f], pattern))

\* xargs dirname
Dirname(files) == [k \in 1..Len(files) |-> files[k][1]]

\* The collating order of the directories ("." sorts before "/").
PathRank(p) ==
    CASE p = "tests/unit.gpu" -> 1
      [] p = "tests/unit/gpu" -> 2

RECURSIVE Sorted(_)
Sorted(S) ==
    IF S = {} THEN <<>>
    ELSE LET x == CHOOSE y \in S : \A z \in S : PathRank(y) <= PathRank(z)
         IN <<x>> \o Sorted(S \ {x})

\* Mutant of SortU: the lines pass through as they come.
SortKeep(lines) == lines

\* sort -u: the distinct lines, in order.
SortU(lines) == Sorted({lines[k] : k \in 1..Len(lines)})

\* TESTS_PATH=<tests-path>/test_\*.py : the files make test is given.
TestsPath(t, dir) ==
    {f \in Present(t) : f[1] = dir /\ MatchesTestGlob(f[2])}

\* Some tree is checked out.
TreeInit ==
    /\ NbIdle
    /\ WfIdle
    /\ tree \in [Slots -> Contents \cup {"absent"}]
    /\ coreOut = <<>>
    /\ cudaOut = <<>>
    /\ gathered = 0
    /\ ran = {}
    /\ PlotIdle

\* prep-testbed, step "gather core test paths".
GatherCore ==
    /\ gathered = 0
    /\ coreOut' = SortU(Dirname(GrepL(tree, Find(tree), "def test_")))
    /\ gathered' = 1
    /\ UNCHANGED <<tree, cudaOut, ran>>

\* Mutant of GatherCuda: the pipeline without grep -l 'def test_'.
GatherCudaMarked ==
    /\ gathered = 1
    /\ gathered' = 2
    /\ cudaOut' = SortU(Dirname(GrepL(tree, Find(tree), "pytest.mark.gpu")))
    /\ UNCHANGED <<tree, coreOut, ran>>

\* prep-testbed, step "gather cuda test paths".
GatherCuda ==
    /\ gathered = 1
    /\ gathered' = 2
    /\ cudaOut' =
         SortU(Dirname(GrepL(tree, GrepL(tree, Find(tree), "def test_"),
                             "pytest.mark.gpu")))
    /\ UNCHANGED <<tree, coreOut, ran>>

\* test-core, step "Test", of the k-th entry of core-tests-matrix.
TestCore(k) ==
    /\ gathered = 2
    /\ k \in 1..Len(coreOut)
    /\ \A r \in ran : r[1] # k
    /\ ran' = ran \cup {<<k, TestsPath(tree, coreOut[k])>>}
    /\ UNCHANGED <<tree, coreOut, cudaOut, gathered>>

TreeNext ==
    \/ GatherCore /\ UNCHANGED <<nbVars, wfVars, plVars>>
    \/ GatherCuda /\ UNCHANGED <<nbVars, wfVars, plVars>>
    \/ \E k \in 1..Cardinality(Slots) :
         TestCore(k) /\ UNCHANGED <<nbVars, wfVars, plVars>>

TreeSpec == TreeInit /\ [][TreeNext]_vars

\* The test files of the tree: named test_*.py and containing 'def test_'.
TestFiles ==
    {f \in Present(tree) :
        MatchesTestGlob(f[2]) /\ Contains(tree[f], "def test_")}

----------------------------------------------------------------------------
\* The coverage artifact

GetCoverage == <<"get-coverage", "-">>

\* get-coverage has completed its step "Download coverage artifact".
HasDownloaded == jobs[GetCoverage] \in {"in_progress", "success"} /\ steps[GetCoverage] >= 5

\* C12: whenever get-coverage has downloaded the artifact, what it
\* downloaded holds, for every test-core and every test-cuda matrix job of the
\* run, the coverage file that job uploaded, under the artifact id of
\* prep-testbed.
C12_CoverageComplete ==
    HasDownloaded =>
      /\ artifactId \in Uuids
      /\ \A i \in MatrixInstances :
           \E r \in downloaded :
             /\ r.from = i
             /\ r.file = CoverageName(i)
             /\ r.name = ArtifactName(artifactId)

\* C20: any two distinct matrix jobs of a run have distinct coverage file
\* names.
C20_DistinctNames ==
    \A i, j \in MatrixInstances : i # j => CoverageName(i) # CoverageName(j)

\* C13: every array whose embeddings.shape a notebook asserted or printed is
\* an array of exactly one document that was passed to finetuner.encode
\* before.
C13_ShapeOfEncodedOne ==
    \A r \in shapes : r.size = "one" /\ r.encoded

\* C14: the name the reconnect snippet passes to get_run is the name under
\* which the notebook's fit call registered the run.
C14_GetRunFindsFit ==
    lastCall = "get_run" => lookedUp = registered

\* C15: once a notebook's fit call returned, every argument the text below
\* the cell says was set is among the arguments the call passed.
C15_SaidIsPassed ==
    (nb \in Notebooks /\ "fit" \in done) => Said(nb) \subseteq fitArgs

PrepTestbed == <<"prep-testbed", "-">>

StyleJobs == {"style-flake", "style-black", "style-isort"}

\* A runner has picked the job up.
HasStarted(i) == jobs[i] \in {"in_progress", "success", "failure", "cancelled"}

\* C16: in a Core-CI run, prep-testbed has not started unless the three
\* style jobs succeeded, no test-core or test-cuda job has started unless
\* prep-testbed succeeded, and get-coverage has not started unless
\* prep-testbed and every matrix job succeeded.
C16_DependencyOrder ==
    wf = "Core-CI" =>
      /\ HasStarted(PrepTestbed) =>
           \A n \in StyleJobs : jobs[<<n, "-">>] = "success"
      /\ \A i \in AllInstances :
           (i[1] \in MatrixJobs /\ HasStarted(i)) =>
             jobs[PrepTestbed] = "success"
      /\ HasStarted(GetCoverage) =>
           /\ jobs[PrepTestbed] = "success"
           /\ \A i \in MatrixInstances : jobs[i] = "success"

\* get-coverage has started in a run with two test-core and two test-cuda
\* jobs.
C16_Witness ==
    /\ wf = "Core-CI"
    /\ HasStarted(GetCoverage)
    /\ Cardinality(MatrixInstances) = 4

\* C17: in every workflow run the merge-blocking job is eventually picked up
\* by a runner.
C17_GateRuns == <>HasStarted(Gate)

\* The merge-blocking job has started although a job it needs was skipped or
\* failed.
C17_Witness ==
    /\ HasStarted(Gate)
    /\ \E n \in Needs(Gate[1]) :
         \E i \in Instances(n) : jobs[i] \in {"skipped", "failure"}

\* A step in which a matrix job concludes otherwise than with success leaves
\* the jobs of the other entries as they are, and a queued matrix job is not
\* concluded without having been picked up.
SiblingsUntouched ==
    \A i \in MatrixInstances :
      /\ (jobs[i] = "in_progress" /\ jobs'[i] \in {"failure", "cancelled"}) =>
           \A j \in MatrixInstances \ {i} : jobs'[j] = jobs[j]
      /\ jobs[i] = "queued" => jobs'[i] \in {"queued", "in_progress"}

\* C18: the failure of a test-core or test-cuda matrix job changes no other
\* matrix job, and once prep-testbed has succeeded the job of every matrix
\* entry is picked up and runs until it concludes.
C18_NoFailFast ==
    /\ [][SiblingsUntouched]_vars
    /\ (jobs[PrepTestbed] = "success") ~>
         (\A i \in MatrixInstances :
            jobs[i] \in {"success", "failure", "cancelled"})

\* One entry of the test-core matrix failed and the other one succeeded.
C18_Witness ==
    \E i, j \in MatrixInstances :
      /\ i[1] = "test-core"
      /\ j[1] = "test-core"
      /\ jobs[i] = "failure"
      /\ jobs[j] = "success"

\* C19: all jobs of a Core-CI run that have checked out the external
\* repository have checked out the same commit.
C19_SameCommit ==
    \A i, j \in AllInstances :
      (checkedOut[i] # 0 /\ checkedOut[j] # 0) => checkedOut[i] = checkedOut[j]

\* The pre-trained model has encoded and matched some array.
Compared == \E x \in Arrays : env[x].matches = "pt"

\* Some array holds the embeddings and the matches of the fine-tuned model.
FineTunedIntact == \E x \in Arrays : env[x].by = "ft" /\ env[x].matches = "ft"

\* C21: once the pre-trained model has encoded and matched, an array still
\* holds the embeddings and matches produced with the fine-tuned model.
C21_SeparateCopies == Compared => FineTunedIntact

\* C22: no code cell of a notebook raised a NameError.
C22_CellsBound ==
    \A r \in nameErrors : r.where # "cell"

\* C23: no "Before and after" snippet raised a NameError.
C23_SnippetBound ==
    \A r \in nameErrors : r.where # "snippet"

\* C4: in Core-CI, success-tests concludes with success only if every other
\* job of the run (the style jobs, prep-testbed, every test-core and
\* test-cuda matrix job, get-coverage) concluded with success; if one of
\* them did not, success-tests does not succeed.
C4_GateOnlyIfAllSucceed ==
    (wf = "Core-CI" /\ jobs[Gate] = "success") =>
        \A i \in Active : jobs[i] = "success"

\* No job of the run was cancelled.
NoneCancelled == \A i \in Active : jobs[i] # "cancelled"

\* C5: in CI, a failure of check-codestyle or of run-tests makes
\* success-all-test fail, whatever the order in which the two parallel jobs
\* complete relative to success-all-test (stated for the runs in which no
\* job is cancelled, where failure is the only way not to succeed).
C5_GateSeesEveryFailure ==
    (/\ wf = "CI"
     /\ RunCompleted
     /\ NoneCancelled
     /\ \E i \in Active : jobs[i] = "failure") => jobs[Gate] = "failure"

----------------------------------------------------------------------------
\* Properties of the run and of the scripts

\* The transitions the status list of the walkthrough allows.
AllowedTransitions ==
    {<<"CREATED", "STARTED">>, <<"STARTED", "FINISHED">>, <<"STARTED", "FAILED">>}

\* C1: the status of a run only moves along CREATED -> STARTED -> FINISHED or
\* FAILED: every change of status is one of these three transitions (so it
\* never moves backward and nothing leaves FINISHED or FAILED), and over its
\* lifetime a run never holds both FINISHED and FAILED.
C1_StatusOrder ==
    /\ [][(run # "NONE" /\ run' # run) => <<run, run'>> \in AllowedTransitions]_vars
    /\ [](~({"FINISHED", "FAILED"} \subseteq seen))

C1_Witness == run = "FAILED" /\ seen = {"CREATED", "STARTED", "FAILED"}

\* C2: in every notebook, once the `for entry in run.stream_logs()` loop has
\* exited, the run is FINISHED or FAILED; the loop never exits while the run
\* is still CREATED or STARTED.
C2_LoopExitTerminal ==
    (nb \in Notebooks /\ "stream" \in done) => run \in Terminal

C2_Witness ==
    nb = "img2img" /\ "stream" \in done /\ run = "FINISHED" /\ Kind = "save"

\* C3: run.save_artifact is invoked only on a run whose status is FINISHED;
\* in no execution of a notebook is it invoked on a FAILED run.
C3_SaveOnlyFinished == savedOn \in {"NONE", "FINISHED"}

\* The calls that only observe the run.
ObservingCalls == {"status", "logs", "stream_logs", "get_run"}

\* C6: run.status(), run.logs(), run.stream_logs() and finetuner.get_run()
\* never change the status of a run: a step of one of these calls leaves the
\* status as it was, and every status transition is a step of the server.
C6_ClientObserves ==
    /\ [][lastCall' \in ObservingCalls => (run' = run /\ seen' = seen)]_vars
    /\ [][(run # "NONE" /\ run' # run) => lastCall' = "server"]_vars

C6_Witness == lastCall = "get_run" /\ run = "STARTED" /\ observed = "CREATED"

\* The kernel is inside the stream_logs loop.
InLoop == phase = "busy" /\ Kind = "stream"

\* C7: the stream_logs wait loop terminates if and only if the remote job
\* reaches FINISHED or FAILED: under fair progress of the server the loop is
\* eventually left, and it is left only in a state where the run is terminal
\* (nothing on the client side ends it earlier).
C7_LoopTerminatesIff ==
    /\ InLoop ~> ~InLoop
    /\ [][(InLoop /\ ~InLoop') => run \in Terminal]_vars

C7_Witness == "stream" \in done /\ printed >= 1 /\ run = "FAILED" /\ ~InLoop

\* The fixed order of the remote steps.
Order ==
    <<"login", "pull", "fit", "stream", "save", "get_model", "encode", "match">>

\* The kinds of call that have been started.
Started == done \cup (IF phase = "busy" THEN {Kind} ELSE {})

\* C8: every notebook performs its remote steps in the order login, pull,
\* fit, stream_logs, save_artifact, get_model, encode, match: a step has
\* started only if the step before it in this order has completed.
C8_FixedOrder ==
    nb \in Notebooks =>
        \A k \in 2..Len(Order) : Order[k] \in Started => Order[k - 1] \in done

C8_Witness == nb = "bert" /\ "match" \in done /\ Kind = "end"

\* C9: each script submits exactly one fit job: fit is never submitted twice,
\* a script that ran to its end submitted it once, and once the run is FAILED
\* the script never goes back to an earlier cell, nothing resubmits, and
\* run.status() keeps returning FAILED.
C9_SingleFit ==
    /\ [](fitCount <= 1)
    /\ []("fit" \in done => fitCount = 1)
    /\ [][run = "FAILED" => (run' = "FAILED" /\ fitCount' = fitCount /\ pc' >= pc)]_vars
    /\ []((run = "FAILED" /\ lastCall = "status") => observed = "FAILED")

C9_Witness ==
    run = "FAILED" /\ lastCall = "status" /\ observed = "FAILED" /\ fitCount = 1

----------------------------------------------------------------------------
\* plot_matches of the "Before and after" snippets

\* The longest query array and the largest num_samples looked at.
MaxQueries == 4
MaxSamples == 3

\* The texts a query can carry.
Texts == {"a", "b", "c"}

\* The arrays of at most MaxQueries queries.
QuerySets == UNION {[1..n -> Texts] : n \in 0..MaxQueries}

\* The test that leaves the loop: "if i >= num_samples: break" in the
\* multilingual notebook, "if i > num_samples: break" in the CLIP notebook.
Break(v, k, n) == IF v = "mclip" THEN k >= n ELSE k > n

\* Mutant of InSeen: no text is found in seen.
InSeenNever(text, s) == FALSE
\* pt_q.text in seen
InSeen(text, s) == text \in s

\* plot_matches(num_samples) is called on an array of queries.
PlotInit ==
    /\ NbIdle
    /\ WfIdle
    /\ TreeIdle
    /\ variant \in {"mclip", "clip"}
    /\ pt_query \in QuerySets
    /\ num_samples \in 0..MaxSamples
    /\ it = 0
    /\ loopI = 0
    /\ seenTexts = {}
    /\ displayed = <<>>
    /\ returned = FALSE

\* enumerate yields the next pair and the index test breaks out of the loop.
LoopBreak ==
    /\ ~returned
    /\ it < Len(pt_query)
    /\ Break(variant, it, num_samples)
    /\ loopI' = it
    /\ returned' = TRUE
    /\ UNCHANGED <<variant, pt_query, num_samples, it, seenTexts, displayed>>

\* The text of the pair was seen before: continue. The multilingual notebook
\* first assigns i = i - 1; enumerate binds i anew on the next iteration.
LoopSkip ==
    /\ ~returned
    /\ it < Len(pt_query)
    /\ ~Break(variant, it, num_samples)
    /\ InSeen(pt_query[it + 1], seenTexts)
    /\ loopI' = IF variant = "mclip" THEN it - 1 ELSE it
    /\ it' = it + 1
    /\ UNCHANGED <<variant, pt_query, num_samples, seenTexts, displayed,
                   returned>>

\* The text is new: it is added to seen and the results are printed and
\* plotted.
LoopDisplay ==
    /\ ~returned
    /\ it < Len(pt_query)
    /\ ~Break(variant, it, num_samples)
    /\ ~InSeen(pt_query[it + 1], seenTexts)
    /\ loopI' = it
    /\ seenTexts' = seenTexts \cup {pt_query[it + 1]}
    /\ displayed' = Append(displayed, it + 1)
    /\ it' = it + 1
    /\ UNCHANGED <<variant, pt_query, num_samples, returned>>

\* zip is exhausted: the loop ends and plot_matches returns.
LoopEnd ==
    /\ ~returned
    /\ it = Len(pt_query)
    /\ returned' = TRUE
    /\ UNCHANGED <<variant, pt_query, num_samples, it, loopI, seenTexts,
                   displayed>>

PlotNext ==
    \/ LoopBreak /\ UNCHANGED <<nbVars, wfVars, trVars>>
    \/ LoopSkip /\ UNCHANGED <<nbVars, wfVars, trVars>>
    \/ LoopDisplay /\ UNCHANGED <<nbVars, wfVars, trVars>>
    \/ LoopEnd /\ UNCHANGED <<nbVars, wfVars, trVars>>

PlotSpec == PlotInit /\ [][PlotNext]_vars

\* The distinct texts of the query array.
DistinctTexts == {pt_query[k] : k \in 1..Len(pt_query)}

\* C24: plot_matches(num_samples) displays results for at most num_samples
\* queries.
C24_AtMostNumSamples == Len(displayed) <= num_samples

\* C25: when the multilingual notebook's plot_matches has returned and the
\* query array holds at least num_samples distinct texts, exactly
\* num_samples queries were displayed.
C25_SkippedNotCounted ==
    (returned /\ variant = "mclip"
        /\ Cardinality(DistinctTexts) >= num_samples)
      => Len(displayed) = num_samples

\* C26: the displayed queries have pairwise distinct texts, and each is the
\* first query of the array with its text.
C26_NoTextTwice ==
    /\ \A a, b \in 1..Len(displayed) :
         pt_query[displayed[a]] = pt_query[displayed[b]] => a = b
    /\ \A a \in 1..Len(displayed) :
         \A q \in 1..(displayed[a] - 1) : pt_query[q] # pt_query[displayed[a]]

\* plot_matches returned after it displayed two queries and passed over a
\* query that repeats a text.
C26_Witness ==
    /\ returned
    /\ Len(displayed) >= 2
    /\ \E q \in 1..it :
         /\ \A a \in 1..Len(displayed) : displayed[a] # q
         /\ \E a \in 1..Len(displayed) :
              displayed[a] < q /\ pt_query[displayed[a]] = pt_query[q]


----------------------------------------------------------------------------
\* The two matrices of prep-testbed

\* The directories a matrix output lists.
Listed(out) == {out[k] : k \in 1..Len(out)}

\* C27: once prep-testbed printed both matrices, every directory listed in
\* cuda-tests-matrix is listed in core-tests-matrix.
C27_CudaSubsetOfCore ==
    gathered = 2 => Listed(cudaOut) \subseteq Listed(coreOut)

\* Both matrices are printed; the tree has a directory with a gpu test, a
\* directory with test functions but no gpu test, and a file test_*.py that
\* carries the mark without a test function.
C27_Witness ==
    /\ gathered = 2
    /\ Listed(cudaOut) # {}
    /\ Listed(cudaOut) # Listed(coreOut)
    /\ \E f \in Present(tree) : MatchesTestGlob(f[2]) /\ tree[f] = "mark"

====
